---------------------------- MODULE Spec2Model ----------------------------
(***************************************************************************)
(* Model of the token-lifecycle core, the rate limiter, the event bus and  *)
(* the WebSocket gateway of the API platform:                              *)
(*   src/security.py, src/gateway.py, src/core/enhanced_event_bus.py,      *)
(*   src/database/models/token.py,                                         *)
(* and of the endpoint registry:                                           *)
(*   src/core/endpoint_tracking/registry.py, src/routes/endpoint_status.py *)
(*                                                                         *)
(* Time is counted in ticks of 1/TicksPerSec second, because the code      *)
(* mixes whole-second values (the exp claim of a token, a Redis TTL) with  *)
(* the fractional clock time.time().                                       *)
(***************************************************************************)
EXTENDS Integers, Sequences, FiniteSets, TLC

VARIABLES
    now,        \* the wall clock, in ticks
    minted,     \* tokens produced by create_jwt_token, indexed by jti
    cache,      \* Redis: revoked_token:{jti} -> tick at which the key expires (0: no key)
    db,         \* the revoked_tokens table: sequence of RevokedToken rows
    rv,         \* the revoke_token call in flight
    lastRev,    \* outcome of the last finished revoke_token call
    lastDec,    \* outcome of the last decode_jwt_token call
    revokedOk,  \* jtis for which a revoke_token call has returned normally
    redisUp,    \* whether the Redis server answers
    rate,       \* Redis: ratelimit key -> [count, exp] (exp: tick at which the key expires)
    rl,         \* the rate_limiter calls in flight, one per task
    lastRate,   \* outcome of the last finished rate_limiter call
    made,       \* per (actor, role): the minute window of its last call and the calls made in it
    calls,      \* rate_limiter calls started so far
    history_size,  \* EventBus._history_size
    subscribers,   \* EventBus._subscribers: topic -> list of callbacks
    history,       \* EventBus._history: topic -> list of events
    pub,           \* the publish calls in flight, one per task
    nextId,        \* events published so far (uuid4 gives each a fresh id)
    published,     \* per topic: the events published since its history was last cleared
    ws,            \* the websocket_endpoint handlers, one per connection
    active_ws_connections,  \* gateway.active_ws_connections: user_id -> entry
    endpoints,     \* EndpointRegistry._endpoints: endpoint_id -> EndpointInfo
    lastOp,        \* the last call made to the endpoint registry and its outcome
    lock,          \* EventBus._lock: 0 when free, else the publish call that holds it
    unlocked,      \* the in-process maps that were changed by code that held no lock
    singleton,     \* EndpointRegistry._instance, its _initialized flag, the constructing threads
    inbox,         \* per connection: what its Redis pub/sub connection has received and not yet returned
    forwarded      \* per connection: the fan-out messages sent to the client, in order

tokenVars == <<minted, cache, db, rv, lastRev, lastDec, revokedOk>>
rateVars == <<rate, rl, lastRate, made, calls>>
busVars == <<history_size, subscribers, history, pub, nextId, published, lock>>
auxVars == <<unlocked, singleton, inbox, forwarded>>
wsVars == <<ws, active_ws_connections>>
regVars == <<endpoints, lastOp>>
vars == <<now, tokenVars, redisUp, auxVars, regVars, rateVars, busVars, wsVars>>

----------------------------------------------------------------------------
(* Bounds of the model *)

TicksPerSec == 2
MaxTime == 5
MaxTokens == 1
MaxCalls == 22
RateTimeStep == 60
MaxRateTime == 120
MaxCap == 2
MaxPublish == 3
MaxSubs == 2
MaxBusTime == 1
WsTimeStep == 62
MaxWsTime == 62
MaxFreeHist == 1
MaxRegTime == 1
MaxFanout == 2

----------------------------------------------------------------------------
(* Program constants *)

ACCESS_TOKEN_EXPIRE_MINUTES == 30
REFRESH_TOKEN_EXPIRE_DAYS == 7
RATE_LIMIT_ADMIN == 1000
RATE_LIMIT_USER == 100
RATE_LIMIT_GUEST == 20
RATE_LIMIT_DEFAULT == 20
RATE_WINDOW_SEC == 60
RATE_KEY_TTL_SEC == 60
DEFAULT_HISTORY_SIZE == 100
PING_IDLE_SEC == 30
CLOSE_POLICY == 1008
CLOSE_CSRF == 4401
CLOSE_INTERNAL == 1011
MAX_HISTORY_SIZE == 100
HTTP_NOT_FOUND == 404
HTTP_SERVER_ERROR == 500

----------------------------------------------------------------------------
(* Helpers *)

Max(a, b) == IF a >= b THEN a ELSE b
Min(a, b) == IF a <= b THEN a ELSE b

\* Python int(x) of the real number n/d (d > 0): truncation toward zero.
IntTrunc(n, d) == IF n >= 0 THEN n \div d ELSE -((-n) \div d)

\* The clock in whole seconds, as an integer claim of a token carries it.
NowSec == now \div TicksPerSec

----------------------------------------------------------------------------
(* Tokens *)

BadToken == 0          \* a string that is no correctly signed JWT
NoSub == "-"           \* the claims carry no "sub"
Subjects == {"alice", "ghost", NoSub}
TokenTypes == {"access", "refresh"}
RoleLists == {<<>>, <<"user">>}
\* expires_delta arguments, in seconds; 0 stands for None and for timedelta(0)
Deltas == {-1, 0, 1, 2}

Jtis == 1..MaxTokens
Presentable == {BadToken} \cup (1..Len(minted))

\* create_jwt_token: the default lifetime of a token type, in seconds
DefaultLifetime(typ) ==
    IF typ = "refresh" THEN REFRESH_TOKEN_EXPIRE_DAYS * 24 * 3600
                       ELSE ACCESS_TOKEN_EXPIRE_MINUTES * 60

\* create_jwt_token: `if expires_delta:` is false for None and for a zero delta
Expire(typ, delta) ==
    IF delta # 0 THEN NowSec + delta ELSE NowSec + DefaultLifetime(typ)

\* lines 66-72: to_encode = data.copy(); to_encode.update({exp, iat, jti, type}).
\* jwt.encode writes the datetimes exp and iat as whole seconds
StdClaims(typ, delta, jti) ==
    [exp |-> Expire(typ, delta), iat |-> NowSec, jti |-> jti, type |-> typ]

\* create_jwt_token(data, expires_delta, token_type); jti = uuid4() is fresh.
\* A token is kept as its claims together with the arguments it was made from
Mint(sub, roles, typ, delta) ==
    /\ Len(minted) < MaxTokens
    /\ LET data == [sub |-> sub, roles |-> roles] IN
       minted' = Append(minted,
                    (StdClaims(typ, delta, Len(minted) + 1) @@ data) @@
                    [args |-> [sub |-> sub, roles |-> roles, type |-> typ]])
    /\ UNCHANGED <<now, cache, db, rv, lastRev, lastDec, revokedOk, redisUp, auxVars, regVars, rateVars, busVars, wsVars>>

----------------------------------------------------------------------------
(* Revocation store and decode *)

\* redis_client.exists(f"revoked_token:{jti}"): the key is there until its TTL ran out
CacheExists(jti) == cache[jti] # 0 /\ now < cache[jti]

\* is_token_revoked(jti, user_id): the cache alone is consulted
is_token_revoked(jti) == CacheExists(jti)

\* the payload jwt.decode returns: the claims of the token
NoPayload == [sub |-> NoSub, roles |-> <<>>, exp |-> 0, iat |-> 0, jti |-> 0, type |-> "none"]
JwtPayload(tok) ==
    [sub |-> minted[tok].sub, roles |-> minted[tok].roles, exp |-> minted[tok].exp,
     iat |-> minted[tok].iat, jti |-> minted[tok].jti, type |-> minted[tok].type]

\* a jwt.decode that accepts a token at the very second of its exp
JwtDecodeLate(tok, verify_exp) ==
    IF tok = BadToken THEN "invalid"
    ELSE IF verify_exp /\ minted[tok].exp * TicksPerSec < now THEN "expired"
    ELSE "ok"

\* jwt.decode with options verify_exp: the signature first, then exp <= now
JwtDecode(tok, verify_exp) ==
    IF tok = BadToken THEN "invalid"
    ELSE IF verify_exp /\ minted[tok].exp * TicksPerSec <= now THEN "expired"
    ELSE "ok"

\* decode_jwt_token(token, verify_exp): "ok" stands for the returned payload,
\* every other value for the error raised
decode_jwt_token(tok, verify_exp) ==
    LET r == JwtDecode(tok, verify_exp) IN
    IF r # "ok" THEN r
    ELSE IF ~redisUp THEN "redis_error"
    ELSE IF is_token_revoked(minted[tok].jti) THEN "revoked"
    ELSE "ok"

\* a caller decodes a token (verify_exp as given)
Decode(tok, verify_exp) ==
    /\ lastDec' = [tok |-> tok, verify |-> verify_exp,
                   res |-> decode_jwt_token(tok, verify_exp),
                   payload |-> IF decode_jwt_token(tok, verify_exp) = "ok"
                               THEN JwtPayload(tok) ELSE NoPayload,
                   unexpired |-> (tok # BadToken /\ now < minted[tok].exp * TicksPerSec),
                   revokedBefore |-> tok \in revokedOk]
    /\ UNCHANGED <<now, minted, cache, db, rv, lastRev, revokedOk, redisUp, auxVars, regVars, rateVars, busVars, wsVars>>

----------------------------------------------------------------------------
(* revoke_token(token, db) *)

IdleRv == [pc |-> "idle", tok |-> BadToken, again |-> FALSE, expired |-> FALSE,
           dbFailed |-> FALSE, db0 |-> <<>>, c0 |-> 0]

\* whether the token's exp has passed (a malformed token has none)
Expired(tok) == tok # BadToken /\ minted[tok].exp * TicksPerSec <= now

\* the call returns (res = "ok") or raises; what it left behind is recorded
RevokeFinish(res, dbFailed, db2, cache2) ==
    /\ lastRev' = [tok |-> rv.tok, res |-> res, again |-> rv.again,
                   expired |-> rv.expired, dbFailed |-> dbFailed,
                   dbSame |-> (db2 = rv.db0),
                   cacheSame |-> (cache2[rv.tok] = rv.c0)]
    /\ rv' = IdleRv
    /\ revokedOk' = IF res = "ok" THEN revokedOk \cup {rv.tok} ELSE revokedOk

\* lines 146-155: decode without verifying expiry, then the required claims
RevokeStart(tok) ==
    /\ rv.pc = "idle"
    /\ LET r == decode_jwt_token(tok, FALSE)
           me == [pc |-> "db", tok |-> tok, again |-> tok \in revokedOk,
                  expired |-> Expired(tok), dbFailed |-> FALSE, db0 |-> db, c0 |-> IF tok = BadToken THEN 0 ELSE cache[tok]]
       IN IF r # "ok"
          THEN /\ lastRev' = [tok |-> tok, res |-> r, again |-> tok \in revokedOk,
                              expired |-> Expired(tok), dbFailed |-> FALSE,
                              dbSame |-> TRUE, cacheSame |-> TRUE]
               /\ UNCHANGED rv
          ELSE IF minted[tok].sub = NoSub
          THEN /\ lastRev' = [tok |-> tok, res |-> "value_error", again |-> tok \in revokedOk,
                              expired |-> Expired(tok), dbFailed |-> FALSE,
                              dbSame |-> TRUE, cacheSame |-> TRUE]
               /\ UNCHANGED rv
          ELSE /\ rv' = me
               /\ UNCHANGED lastRev
    /\ UNCHANGED <<now, minted, cache, db, lastDec, revokedOk, redisUp, auxVars, regVars, rateVars, busVars, wsVars>>

\* the jti column of revoked_tokens is unique
JtiInDb(jti) == \E i \in 1..Len(db) : db[i].jti = jti

\* lines 157-165: db.add(RevokedToken(...)); db.commit().  dbOk: the database
\* accepts the write (it is reachable)
\* a revoked_tokens table without the unique constraint on jti
CommitFailsNoUnique(dbOk, jti) == ~dbOk

CommitFails(dbOk, jti) == ~dbOk \/ JtiInDb(jti)

RevokeDbWrite(dbOk) ==
    /\ rv.pc = "db"
    /\ LET t == minted[rv.tok] IN
       IF CommitFails(dbOk, t.jti)
       THEN /\ db' = db
            /\ RevokeFinish("db_error", TRUE, db, cache)
       ELSE /\ db' = Append(db, [jti |-> t.jti, user_id |-> t.sub, expires_at |-> t.exp])
            /\ rv' = [rv EXCEPT !.pc = "cache"]
            /\ UNCHANGED <<lastRev, revokedOk>>
    /\ UNCHANGED <<now, minted, cache, lastDec, redisUp, auxVars, regVars, rateVars, busVars, wsVars>>

\* line 169: ttl = max(0, int(exp.timestamp() - time.time()))
RevokeTtl(exp) == Max(0, IntTrunc(exp * TicksPerSec - now, TicksPerSec))

\* lines 167-171: redis_client.setex(key, ttl, "1"); Redis refuses an expire
\* time that is not positive ("invalid expire time in 'setex' command")
RevokeCacheWrite ==
    /\ rv.pc = "cache"
    /\ LET t == minted[rv.tok]
           ttl == RevokeTtl(t.exp)
       IN IF ~redisUp \/ ttl <= 0
          THEN /\ cache' = cache
               /\ RevokeFinish("redis_error", rv.dbFailed, db, cache)
          ELSE /\ cache' = [cache EXCEPT ![t.jti] = now + ttl * TicksPerSec]
               /\ RevokeFinish("ok", rv.dbFailed, db,
                               [cache EXCEPT ![t.jti] = now + ttl * TicksPerSec])
    /\ UNCHANGED <<now, minted, db, lastDec, redisUp, auxVars, regVars, rateVars, busVars, wsVars>>

----------------------------------------------------------------------------
(* rate_limiter(user_id, role): src/gateway.py *)

\* Strings are sequences of pieces; a piece is ":" or a run of other characters,
\* so two strings are equal exactly when their sequences of pieces are.
GUEST == <<"guest">>
RateRoles == {GUEST, <<"guest", ":", "7">>, <<"user">>, <<"admin">>}
RateUsers == {<<"9">>, <<"7", ":", "9">>}
\* the (actor, role) pairs that issue requests in the model
RatePairs == {<<(<<"9">>), GUEST>>, <<(<<"7", ":", "9">>), GUEST>>,
              <<(<<"9">>), (<<"guest", ":", "7">>)>>}
MinuteStr(m) == <<"0", "1", "2", "3", "4">>[m + 1]

\* RATE_LIMITS.get(role, 20)
RateLimitOf(role) ==
    IF role = <<"admin">> THEN RATE_LIMIT_ADMIN
    ELSE IF role = <<"user">> THEN RATE_LIMIT_USER
    ELSE IF role = GUEST THEN RATE_LIMIT_GUEST
    ELSE RATE_LIMIT_DEFAULT

\* now = int(time.time() / 60)
Minute == now \div (RATE_WINDOW_SEC * TicksPerSec)

\* key = f"ratelimit:{role}:{user_id}:{now}"
RateKey(user, role, minute) ==
    <<"ratelimit", ":">> \o role \o <<":">> \o user \o <<":", MinuteStr(minute)>>

\* redis_client.get(key): None (0 here) when the key is absent or its TTL ran out
RedisGet(key) ==
    IF key \in DOMAIN rate /\ now < rate[key].exp THEN rate[key].count ELSE 0

\* redis_client.set(key, value, ex=60)
RedisSetEx(key, value, ttlSec) ==
    [k \in DOMAIN rate \cup {key} |->
        IF k = key THEN [count |-> value, exp |-> now + ttlSec * TicksPerSec]
        ELSE rate[k]]

\* the processes that call rate_limiter against the one Redis; SeqTasks is
\* the single caller of the runs in which calls come one after another
RateTasks == {1, 2}
SeqTasks == {1}
IdleRl == [pc |-> "idle", user |-> <<>>, role |-> <<>>, key |-> <<>>, limit |-> 0,
           got |-> 0, k |-> 0, minute |-> 0]

\* lines 36-39: the window, the key, the limit and the GET
RateGet(t, user, role) ==
    /\ rl[t].pc = "idle"
    /\ calls < MaxCalls
    /\ calls' = calls + 1
    /\ LET p == <<user, role>>
           k == IF made[p].minute = Minute THEN made[p].k + 1 ELSE 1
       IN /\ made' = [made EXCEPT ![p] = [minute |-> Minute, k |-> k]]
          /\ rl' = [rl EXCEPT ![t] =
                      [pc |-> "set", user |-> user, role |-> role,
                       key |-> RateKey(user, role, Minute),
                       limit |-> RateLimitOf(role), got |-> RedisGet(RateKey(user, role, Minute)),
                       k |-> k, minute |-> Minute]]
    /\ UNCHANGED <<now, tokenVars, redisUp, auxVars, regVars, rate, lastRate, busVars, wsVars>>

\* line 46: if count > limit: raise HTTPException(429)
Exceeded(count, limit) == count > limit

\* lines 40-48: the SET of the incremented count, then the comparison
RateSet(t) ==
    /\ rl[t].pc = "set"
    /\ LET count == rl[t].got + 1 IN
       /\ rate' = RedisSetEx(rl[t].key, count, RATE_KEY_TTL_SEC)
       /\ lastRate' = [user |-> rl[t].user, role |-> rl[t].role, minute |-> rl[t].minute,
                       k |-> rl[t].k, limit |-> rl[t].limit, count |-> count,
                       ok |-> ~Exceeded(count, rl[t].limit)]
    /\ rl' = [rl EXCEPT ![t] = IdleRl]
    /\ UNCHANGED <<now, tokenVars, redisUp, auxVars, regVars, made, calls, busVars, wsVars>>

\* the calls are made one after another
RateSequential == \A t \in RateTasks : rl[t].pc = "idle"

----------------------------------------------------------------------------
(* EventBus: src/core/enhanced_event_bus.py *)

NoTopic == "<None>"         \* clear_history() without a topic
BusTopics == {"a", ""}
Callbacks == {"cb1", "cb2"}
NoTs == -1                  \* the published event carries no "timestamp"
SuppliedTs == {0}           \* timestamps a caller puts into the event
NoSince == -1000            \* poll without since_timestamp (None)
PollSince == 0..(MaxBusTime + 1)
Pubs == {1, 2}               \* the publish calls that may be in flight together
SeqPubs == {1}               \* one caller that publishes one event after another
HistorySizes == 0..MaxCap

\* Python's `if topic:` is false for None and for the empty string
Truthy(topic) == topic # NoTopic /\ topic # ""

\* a Python slice lst[-n:] for n > 0; lst[-0:] is the whole list
LastN(lst, n) ==
    IF n = 0 \/ n >= Len(lst) THEN lst
    ELSE SubSeq(lst, Len(lst) - n + 1, Len(lst))

\* a trim that keeps one event too many
TrimLate(lst) == IF Len(lst) > history_size + 1 THEN LastN(lst, history_size + 1) ELSE lst

\* lines 58-59: trim the history to the last history_size events
Trim(lst) == IF Len(lst) > history_size THEN LastN(lst, history_size) ELSE lst

SetAt(f, k, v) == [x \in DOMAIN f \cup {k} |-> IF x = k THEN v ELSE f[x]]

IdlePub == [pc |-> "idle", topic |-> "", ev |-> [id |-> 0, timestamp |-> 0, topic |-> ""],
            idx |-> 0, raised |-> FALSE, res |-> "none", dirty |-> FALSE, hdirty |-> FALSE,
            parent |-> 0, called |-> <<>>]

\* the publish call is over: it returned, or it raised
Returned(res, raised) == [IdlePub EXCEPT !.res = res, !.raised = raised]

\* another call changes the subscriber list (dirty) or the history (hdirty) of
\* a topic while publish calls on it are delivering
MarkDirty(P, topic, except) ==
    [q \in Pubs |->
        IF q # except /\ P[q].pc = "in_cb" /\ P[q].topic = topic
        THEN [P[q] EXCEPT !.dirty = TRUE] ELSE P[q]]
MarkHDirty(P, topics, except) ==
    [q \in Pubs |->
        IF q # except /\ P[q].pc = "in_cb" /\ P[q].topic \in topics
        THEN [P[q] EXCEPT !.hdirty = TRUE] ELSE P[q]]

\* EventBus(history_size): a bus is constructed with the given capacity
NewBus(hs) ==
    /\ nextId = 0 /\ subscribers = <<>> /\ history = <<>>
    /\ history_size = DEFAULT_HISTORY_SIZE
    /\ history_size' = hs
    /\ UNCHANGED <<now, tokenVars, redisUp, auxVars, regVars, rateVars, wsVars, subscribers, history, pub, nextId,
                   published, lock>>

\* line 59: the `async with self._lock` block of publish ends before the
\* subscribers are notified, so the lock is free while a callback runs
LockKeptForCallbacks(p) == p
LockAfterAppend(p) == 0

\* lines 41-63: the metadata, the append under the lock, the trim, and the
\* call of the first subscriber (nothing suspends before it); par is the
\* publish call whose callback makes this call, 0 when a task makes it
PublishCall(p, topic, ts, par) ==
    /\ pub[p].pc = "idle"
    /\ nextId < MaxPublish
    /\ nextId' = nextId + 1
    /\ LET ev == [id |-> nextId + 1,
                  timestamp |-> IF ts = NoTs THEN now ELSE ts,
                  topic |-> topic]
           old == IF topic \in DOMAIN history THEN history[topic] ELSE <<>>
           subs == IF topic \in DOMAIN subscribers THEN subscribers[topic] ELSE <<>>
           me == IF Len(subs) > 0
                 THEN [pc |-> "in_cb", topic |-> topic, ev |-> ev, idx |-> 1,
                       raised |-> FALSE, res |-> "running",
                       dirty |-> FALSE, hdirty |-> FALSE, parent |-> par,
                       called |-> <<subs[1]>>]
                 ELSE [Returned("returned", FALSE) EXCEPT !.parent = par]
       IN /\ history' = SetAt(history, topic, Trim(Append(old, ev)))
          /\ published' = [published EXCEPT ![topic] = Append(@, ev)]
          /\ pub' = [MarkHDirty(pub, {topic}, p) EXCEPT ![p] = me]
          /\ lock' = IF Len(subs) > 0 THEN LockAfterAppend(p) ELSE 0
    /\ UNCHANGED <<now, tokenVars, redisUp, auxVars, regVars, rateVars, wsVars, history_size, subscribers>>

\* publish(topic, event), called by a task; the call goes ahead once it has
\* the lock
Publish(p, topic, ts) ==
    /\ lock = 0
    /\ PublishCall(p, topic, ts, 0)

\* a callback that publish call p awaits calls publish itself (line 88 of
\* interface_adapters.py): the nested call q goes ahead when the lock is
\* free and waits for the lock otherwise
NestedPublish(p, q, topic) ==
    /\ p # q
    /\ pub[p].pc = "in_cb"
    /\ pub[q].pc = "idle"
    /\ nextId < MaxPublish
    /\ IF lock = 0
       THEN PublishCall(q, topic, NoTs, p)
       ELSE /\ pub' = [pub EXCEPT ![q] = [IdlePub EXCEPT !.pc = "blocked", !.parent = p]]
            /\ UNCHANGED <<now, tokenVars, redisUp, auxVars, regVars, rateVars, wsVars, history_size,
                           subscribers, history, nextId, published, lock>>

\* what an awaited callback does: it returns, it raises an Exception, or it
\* raises a BaseException that is no Exception (asyncio.CancelledError when
\* the publishing task is cancelled, KeyboardInterrupt, SystemExit)
CallbackOutcomes == {"return", "raise", "raise_base"}

\* a raising callback ends the delivery loop and the publish call
AfterCallbackAbort(p, outcome) ==
    LET me == pub[p]
        nxt == me.idx + 1
        subs == subscribers[me.topic]
    IN IF outcome # "return"
       THEN [Returned("raised", TRUE) EXCEPT !.parent = me.parent]
       ELSE IF nxt <= Len(subs)
       THEN [me EXCEPT !.idx = nxt, !.called = Append(@, subs[nxt])]
       ELSE [Returned("returned", me.raised) EXCEPT !.parent = me.parent]

\* lines 63-67: the awaited callback at position idx has returned or raised.
\* `except Exception` (line 66) logs an Exception and the for loop goes on
\* over the list as it is now; a BaseException that is no Exception is not
\* caught: it leaves publish, and the callbacks behind idx are not called
AfterCallback(p, outcome) ==
    LET me == pub[p]
        nxt == me.idx + 1
        subs == subscribers[me.topic]
        r == me.raised \/ outcome # "return"
    IN IF outcome = "raise_base"
       THEN [Returned("raised", TRUE) EXCEPT !.parent = me.parent]
       ELSE IF nxt <= Len(subs)
       THEN [me EXCEPT !.idx = nxt, !.raised = r, !.called = Append(@, subs[nxt])]
       ELSE [Returned("returned", r) EXCEPT !.parent = me.parent]

\* a callback that awaits a publish call of its own goes on after that call
Awaiting(p) == \E q \in Pubs : pub[q].parent = p /\ pub[q].pc # "idle"

CallbackDone(p, outcome) ==
    /\ pub[p].pc = "in_cb"
    /\ ~Awaiting(p)
    /\ pub' = [pub EXCEPT ![p] = AfterCallback(p, outcome)]
    /\ UNCHANGED <<now, tokenVars, redisUp, auxVars, regVars, rateVars, wsVars, history_size, subscribers,
                   history, nextId, published, lock>>

\* the registrations held by the bus, over all topics
NSubs ==
    LET Sum[T \in SUBSET DOMAIN subscribers] ==
            IF T = {} THEN 0
            ELSE LET t == CHOOSE x \in T : TRUE IN Len(subscribers[t]) + Sum[T \ {t}]
    IN Sum[DOMAIN subscribers]

\* subscribe(topic, callback)
Subscribe(topic, cb) ==
    /\ lock = 0
    /\ LET subs == IF topic \in DOMAIN subscribers THEN subscribers[topic] ELSE <<>> IN
       /\ NSubs < MaxSubs
       /\ subscribers' = SetAt(subscribers, topic, Append(subs, cb))
    /\ pub' = MarkDirty(pub, topic, 0)
    /\ UNCHANGED <<now, tokenVars, redisUp, auxVars, regVars, rateVars, wsVars, history_size, history, nextId,
                   published, lock>>

\* list.remove(x): the first occurrence goes
RemoveFirst(lst, x) ==
    LET i == CHOOSE j \in 1..Len(lst) :
                 lst[j] = x /\ \A k \in 1..(j - 1) : lst[k] # x
    IN SubSeq(lst, 1, i - 1) \o SubSeq(lst, i + 1, Len(lst))

InSeq(lst, x) == \E i \in 1..Len(lst) : lst[i] = x

\* unsubscribe(topic, callback)
Unsubscribe(topic, cb) ==
    /\ lock = 0
    /\ topic \in DOMAIN subscribers
    /\ InSeq(subscribers[topic], cb)
    /\ subscribers' = [subscribers EXCEPT ![topic] = RemoveFirst(@, cb)]
    /\ pub' = MarkDirty(pub, topic, 0)
    /\ UNCHANGED <<now, tokenVars, redisUp, auxVars, regVars, rateVars, wsVars, history_size, history, nextId,
                   published, lock>>

\* poll with `>=` in place of `>`
PollInclusive(topic, since) ==
    IF topic \notin DOMAIN history THEN <<>>
    ELSE IF since = NoSince THEN history[topic]
    ELSE SelectSeq(history[topic], LAMBDA e : e.timestamp >= since)

\* poll(topic, since_timestamp)
Poll(topic, since) ==
    IF topic \notin DOMAIN history THEN <<>>
    ELSE IF since = NoSince THEN history[topic]
    ELSE SelectSeq(history[topic], LAMBDA e : e.timestamp > since)

\* clear_history(topic)
ClearHistory(topic) ==
    /\ IF Truthy(topic)
       THEN /\ history' = IF topic \in DOMAIN history
                          THEN [history EXCEPT ![topic] = <<>>] ELSE history
            /\ published' = IF topic \in DOMAIN history
                            THEN [published EXCEPT ![topic] = <<>>] ELSE published
            /\ pub' = MarkHDirty(pub, {topic}, 0)
       ELSE /\ history' = <<>>
            /\ published' = [t \in BusTopics |-> <<>>]
            /\ pub' = MarkHDirty(pub, BusTopics, 0)
    /\ unlocked' = IF Truthy(topic) /\ topic \notin DOMAIN history
                   THEN unlocked ELSE unlocked \cup {"_history"}
    /\ UNCHANGED <<now, tokenVars, redisUp, singleton, inbox, forwarded, regVars, rateVars, wsVars,
                   history_size, subscribers, nextId, lock>>

----------------------------------------------------------------------------
(* websocket_endpoint: src/gateway.py, validate_ws_token: src/security.py *)

Conns == {1, 2}
NoTokenGiven == -1          \* neither a token query parameter nor an Authorization header
UsersInDb == {"alice"}      \* the rows of the users table
CsrfInputs == {"none", "match", "mismatch"}   \* csrf_token absent, equal to the cookie, or not
LoopPcs == {"fanout", "recv", "ping"}
\* the handler is in its loop: at one of its three sections, or suspended in
\* the send of the liveness ping (line 260)
ActivePcs == LoopPcs \cup {"pinged"}
\* what a send to a socket whose client is gone does: it raises
\* WebSocketDisconnect, raises another error, or is dropped silently
GoneSends == {"raise_disc", "raise_err", "silent"}

UserChannel(user) == <<"user", user, "realtime">>
RoleChannel(role) == <<"role", role, "broadcasts">>
ChannelsOf(user, roles) ==
    {UserChannel(user)} \cup {RoleChannel(roles[i]) : i \in 1..Len(roles)}

NewWs == [pc |-> "new", tok |-> NoTokenGiven, csrfBad |-> FALSE, reject |-> "none",
          accepted |-> FALSE, closeCode |-> 0, dbOpen |-> FALSE, user |-> NoSub,
          roles |-> <<>>, subs |-> {}, pubsubOpen |-> FALSE, wasActive |-> FALSE,
          gone |-> FALSE, endedBy |-> "none", msg |-> "none", reply |-> "none"]

\* validate_ws_token without the check of the token type
ValidateWsTokenAnyType(tok) ==
    LET r == decode_jwt_token(tok, TRUE) IN
    IF r # "ok" THEN r
    ELSE IF minted[tok].sub = NoSub THEN "no_sub"
    ELSE IF minted[tok].sub \notin UsersInDb THEN "no_user"
    ELSE "ok"

\* validate_ws_token(token, db): "ok" for the returned payload, else the
\* reason of the HTTPException(401) raised
ValidateWsToken(tok) ==
    LET r == decode_jwt_token(tok, TRUE) IN
    IF r # "ok" THEN r
    ELSE IF minted[tok].type # "access" THEN "type"
    ELSE IF minted[tok].sub = NoSub THEN "no_sub"
    ELSE IF minted[tok].sub \notin UsersInDb THEN "no_user"
    ELSE "ok"

\* validate_csrf: the cookie is missing or differs from the csrf_token given
CsrfFails(csrf) == csrf = "mismatch"

\* lines 167-197: the token, the database session (line 176, not reached
\* without a token), validation, CSRF, accept.  A rejection hands the close
\* frame to the server and awaits it (lines 169, 185, 193, 289): the handler
\* is at pc "ending" until the await returns
Handshake(c, tok, csrf) ==
    /\ ws[c].pc = "new"
    /\ LET v == IF tok = NoTokenGiven THEN "no_token" ELSE ValidateWsToken(tok)
           base == [ws[c] EXCEPT !.tok = tok, !.csrfBad = (csrf = "mismatch")]
       IN ws' = [ws EXCEPT ![c] =
            IF v # "ok"
            THEN [base EXCEPT !.pc = "ending", !.reject = v, !.closeCode = CLOSE_POLICY,
                              !.dbOpen = (tok # NoTokenGiven)]
            ELSE IF csrf # "none" /\ CsrfFails(csrf)
            THEN [base EXCEPT !.pc = "ending", !.reject = "csrf", !.closeCode = CLOSE_CSRF,
                              !.dbOpen = TRUE]
            ELSE [base EXCEPT !.pc = "accepted", !.accepted = TRUE, !.dbOpen = TRUE,
                              !.user = minted[tok].sub, !.roles = minted[tok].roles]]
    /\ UNCHANGED <<now, tokenVars, redisUp, auxVars, regVars, rateVars, busVars, active_ws_connections>>

\* a Register that closes the connections the user already has
RegisterClosingPrevious(c) ==
    /\ ws[c].pc = "accepted"
    /\ active_ws_connections' =
           SetAt(active_ws_connections, ws[c].user, [conn |-> c, last_activity |-> now])
    /\ ws' = [d \in Conns |->
                IF d = c
                THEN (IF redisUp
                      THEN [ws[c] EXCEPT !.pc = "fanout", !.wasActive = TRUE,
                                         !.pubsubOpen = TRUE,
                                         !.subs = ChannelsOf(ws[c].user, ws[c].roles)]
                      ELSE [ws[c] EXCEPT !.pc = "ending", !.closeCode = CLOSE_INTERNAL,
                                         !.endedBy = "setup"])
                ELSE IF ws[d].pc \in ActivePcs /\ ws[d].user = ws[c].user
                THEN [ws[d] EXCEPT !.pc = "closing"]
                ELSE ws[d]]
    /\ UNCHANGED <<now, tokenVars, redisUp, auxVars, regVars, rateVars, busVars>>

\* lines 199-222: the entry in the connection table, the pub/sub handle and
\* its subscriptions; a failing subscribe takes the handler to line 291,
\* where close(1011) is awaited (line 294) with the session still open
RegisterStep(c) ==
    /\ ws[c].pc = "accepted"
    /\ unlocked' = unlocked \cup {"active_ws_connections"}
    /\ active_ws_connections' =
           SetAt(active_ws_connections, ws[c].user, [conn |-> c, last_activity |-> now])
    /\ ws' = [ws EXCEPT ![c] =
            IF redisUp
            THEN [@ EXCEPT !.pc = "fanout", !.wasActive = TRUE, !.pubsubOpen = TRUE,
                           !.subs = ChannelsOf(ws[c].user, ws[c].roles)]
            ELSE [@ EXCEPT !.pc = "ending", !.closeCode = CLOSE_INTERNAL,
                           !.endedBy = "setup"]]
    /\ UNCHANGED <<now, tokenVars, redisUp, singleton, regVars, rateVars, busVars>>

Register(c) == RegisterStep(c) /\ UNCHANGED <<inbox, forwarded>>

\* what get_message returns: the confirmation of a subscribe, or a message
\* published on a channel
Confirmation(ch) == [type |-> "subscribe", id |-> 0, channel |-> ch]
FanoutMessage(ch, id) == [type |-> "message", id |-> id, channel |-> ch]

\* lines 215-222 with the replies of Redis: each subscribe is confirmed on
\* the pub/sub connection, the user channel first, then the role channels
Confirmations(user, roles) ==
    <<Confirmation(UserChannel(user))>> \o
    [i \in 1..Len(roles) |-> Confirmation(RoleChannel(roles[i]))]

QueuedRegister(c) ==
    /\ RegisterStep(c)
    /\ inbox' = [inbox EXCEPT ![c] =
                     IF redisUp THEN Confirmations(ws[c].user, ws[c].roles) ELSE @]
    /\ UNCHANGED forwarded

Without(f, k) == [x \in DOMAIN f \ {k} |-> f[x]]

\* lines 280-297: the finally blocks.  pubsub.unsubscribe talks to Redis: when
\* Redis is down it raises, the rest of the inner finally is skipped and the
\* handler goes to line 291, where it calls close(1011).  On a socket that is
\* down already (sockDown: the client's disconnect was raised, or a close
\* frame was sent at line 279) that call raises at once, no frame is sent and
\* db.close() runs; otherwise the frame 1011 is handed to the server and the
\* handler awaits it with the session open
Cleaned(w, code, by, sockDown) ==
    IF redisUp
    THEN [w EXCEPT !.pc = "closed", !.subs = {}, !.pubsubOpen = FALSE,
                   !.dbOpen = FALSE, !.closeCode = code, !.endedBy = by]
    ELSE IF sockDown
    THEN [w EXCEPT !.pc = "closed", !.dbOpen = FALSE, !.endedBy = by]
    ELSE [w EXCEPT !.pc = "ending", !.closeCode = CLOSE_INTERNAL, !.endedBy = by]

\* the awaited close has returned: the handler returns and the outer finally
\* closes the session (line 297)
HandlerEnd(c) ==
    /\ ws[c].pc = "ending"
    /\ ws' = [ws EXCEPT ![c] = [@ EXCEPT !.pc = "closed", !.dbOpen = FALSE]]
    /\ UNCHANGED <<now, tokenVars, redisUp, auxVars, regVars, rateVars, busVars, active_ws_connections>>

\* line 286: active_ws_connections.pop(user_id, None), reached when the
\* unsubscribes went through
TableAfterCleanup(user) ==
    IF redisUp THEN Without(active_ws_connections, user) ELSE active_ws_connections

\* lines 274-279: an unexpected error; the socket is closed with 1011 before
\* the finally block runs
Failing(w) == [w EXCEPT !.pc = "closing", !.closeCode = CLOSE_INTERNAL]

\* the effect of a send on the handler: it goes on at pc `next`, or the error
\* raised by the send ends it
AfterSend(c, out, next) ==
    IF ~ws[c].gone \/ out = "silent"
    THEN /\ ws' = [ws EXCEPT ![c].pc = next]
         /\ UNCHANGED active_ws_connections
    ELSE IF out = "raise_disc"
    THEN /\ ws' = [ws EXCEPT ![c] = Cleaned(@, 0, "disconnect", TRUE)]
         /\ active_ws_connections' = TableAfterCleanup(ws[c].user)
    ELSE /\ ws' = [ws EXCEPT ![c] = Failing(@)]
         /\ UNCHANGED active_ws_connections

\* lines 226-229: get_message raises when Redis is down; a message that it
\* returns (hasMsg) is forwarded with send_text
FanoutStep(c, hasMsg, out) ==
    /\ ws[c].pc = "fanout"
    /\ IF ~redisUp
       THEN /\ ws' = [ws EXCEPT ![c] = Failing(@)]
            /\ UNCHANGED active_ws_connections
       ELSE IF hasMsg
       THEN AfterSend(c, out, "recv")
       ELSE /\ ws' = [ws EXCEPT ![c].pc = "recv"]
            /\ UNCHANGED active_ws_connections
    /\ UNCHANGED <<now, tokenVars, redisUp, unlocked, singleton, regVars, rateVars, busVars>>

LoopFanout(c, hasMsg, out) == FanoutStep(c, hasMsg, out) /\ UNCHANGED <<inbox, forwarded>>

\* the messages among what a pub/sub connection holds
MessagesIn(q) == SelectSeq(q, LAMBDA m : m.type = "message")

\* some process publishes on a channel the connection is subscribed to:
\* Redis hands the message to the pub/sub connection, behind what it holds
FanoutPublish(c, ch) ==
    /\ ws[c].pubsubOpen /\ redisUp
    /\ ch \in ws[c].subs
    /\ Len(MessagesIn(inbox[c])) + Len(forwarded[c]) < MaxFanout
    /\ inbox' = [inbox EXCEPT ![c] = Append(@,
                     FanoutMessage(ch, Len(MessagesIn(@)) + Len(forwarded[c]) + 1))]
    /\ UNCHANGED <<now, tokenVars, redisUp, unlocked, singleton, forwarded, regVars, rateVars,
                   busVars, wsVars>>

\* line 228: only a reply of type "message" is forwarded
Forwardable(m) == m.type = "message"

\* lines 226-229 with the pub/sub connection: get_message(timeout=1) returns
\* the oldest reply the connection holds, or None after the timeout
QueuedFanout(c) ==
    LET got == redisUp /\ inbox[c] # <<>>
        fwd == got /\ Forwardable(Head(inbox[c]))
    IN /\ FanoutStep(c, fwd, "silent")
       /\ inbox' = [inbox EXCEPT ![c] = IF got THEN Tail(@) ELSE @]
       /\ forwarded' = [forwarded EXCEPT ![c] =
                            IF fwd /\ ~ws[c].gone THEN Append(@, Head(inbox[c]).id) ELSE @]

\* the receive wait that ends by timeout is taken for an error
OnRecvTimeoutFails(w) == Failing(w)
\* lines 247-249: asyncio.TimeoutError is passed over
OnRecvTimeout(w) == [w EXCEPT !.pc = "ping"]

\* lines 231-255, the receive wait ends by timeout
LoopRecvTimeout(c) ==
    /\ ws[c].pc = "recv"
    /\ ~ws[c].gone
    /\ ws' = [ws EXCEPT ![c] = OnRecvTimeout(@)]
    /\ UNCHANGED <<now, tokenVars, redisUp, auxVars, regVars, rateVars, busVars, active_ws_connections>>

\* the payloads a client sends: a JSON object with type ping, command,
\* join_channel or another type, a JSON value that is no object, and text
\* that is not JSON
MsgKinds == {"ping", "command", "join_channel", "other", "non_object", "non_json"}

\* json.loads(data) returns
ParsesAsJson(kind) == kind # "non_json"
\* msg.get("type") works: the parsed value is a dict
IsObject(kind) == kind \notin {"non_json", "non_object"}

\* process_ws_message(data, user_id, websocket), lines 299-323: the frame
\* sent.  On a JSON value that is no object message.get (line 307) raises
\* AttributeError, which the handler of line 320 does not catch: the call
\* raises and nothing is sent
ProcessWsMessage(kind) ==
    IF ~ParsesAsJson(kind) THEN "echo"
    ELSE IF ~IsObject(kind) THEN "raises"
    ELSE IF kind = "ping" THEN "pong"
    ELSE IF kind = "command" THEN "command_result"
    ELSE "unknown_type"

\* lines 234-246 raise before or while the message is processed: json.loads
\* (line 236), msg.get on a value that is no dict (line 237), the entry of
\* the user missing from the connection table (line 243)
MessageRaises(kind, hasEntry) == ~ParsesAsJson(kind) \/ ~IsObject(kind) \/ ~hasEntry

\* an inner handler that lets the error of a message go on to line 274
OnMessageErrorRaise(w) == Failing(w)

\* lines 250-255: except Exception: the frame {"error": str(msg_err)} is sent
\* and the loop goes on
OnMessageError(w) == [w EXCEPT !.pc = "ping", !.reply = "error_frame"]

\* lines 231-255, a client message arrives
LoopRecvMessage(c, kind) ==
    /\ ws[c].pc = "recv"
    /\ ~ws[c].gone
    /\ LET hasEntry == ws[c].user \in DOMAIN active_ws_connections IN
       /\ ws' = [ws EXCEPT ![c] =
                   IF MessageRaises(kind, hasEntry)
                   THEN OnMessageError([ws[c] EXCEPT !.msg = kind])
                   ELSE [ws[c] EXCEPT !.pc = "ping", !.msg = kind,
                                      !.reply = ProcessWsMessage(kind)]]
       /\ active_ws_connections' =
              IF IsObject(kind) /\ hasEntry
              THEN [active_ws_connections EXCEPT ![ws[c].user].last_activity = now]
              ELSE active_ws_connections
    /\ UNCHANGED <<now, tokenVars, redisUp, auxVars, regVars, rateVars, busVars>>

\* lines 231-255, the client is gone: receive_text raises, the inner handler
\* (except Exception) catches it and sends an error frame to the dead socket
LoopRecvGone(c, out) ==
    /\ ws[c].pc = "recv"
    /\ ws[c].gone
    /\ AfterSend(c, out, "ping")
    /\ UNCHANGED <<now, tokenVars, redisUp, auxVars, regVars, rateVars, busVars>>

\* line 257: the connection has been idle for more than 30 seconds
PingDue(user) ==
    now - active_ws_connections[user].last_activity > PING_IDLE_SEC * TicksPerSec

\* the iteration is over: the message it handled and its reply are forgotten
EndIter(w) == [w EXCEPT !.msg = "none", !.reply = "none"]

\* lines 256-260: the test of the idle time and the send of the liveness
\* ping.  The entry of the user missing at line 257 is a KeyError outside the
\* try of line 258; a send that raises breaks the loop (lines 263-265); a
\* send that goes through suspends the handler at line 260
LoopPing(c, out) ==
    /\ ws[c].pc = "ping"
    /\ IF ws[c].user \notin DOMAIN active_ws_connections
       THEN /\ ws' = [ws EXCEPT ![c] = Failing(EndIter(ws[c]))]
            /\ UNCHANGED active_ws_connections
       ELSE IF ~PingDue(ws[c].user)
       THEN /\ ws' = [ws EXCEPT ![c] = [EndIter(ws[c]) EXCEPT !.pc = "fanout"]]
            /\ UNCHANGED active_ws_connections
       ELSE IF ws[c].gone /\ out # "silent"
       THEN /\ ws' = [ws EXCEPT ![c] = Cleaned(EndIter(ws[c]), 0, "ping", out = "raise_disc")]
            /\ active_ws_connections' = TableAfterCleanup(ws[c].user)
       ELSE /\ ws' = [ws EXCEPT ![c].pc = "pinged"]
            /\ UNCHANGED active_ws_connections
    /\ UNCHANGED <<now, tokenVars, redisUp, auxVars, regVars, rateVars, busVars>>

\* lines 262-268, the send of the ping has returned: the activity clock of
\* the user's entry is set.  When the entry was removed while the handler was
\* suspended, line 262 is a KeyError inside the try: it is caught at line
\* 263 and breaks the loop, and the cleanup runs on a socket that is still
\* up.  When the client left while the handler was suspended, the send
\* raises: line 262 is not reached and the loop breaks (lines 263-265)
LoopPingSent(c, out) ==
    /\ ws[c].pc = "pinged"
    /\ IF ws[c].gone /\ out # "silent"
       THEN /\ ws' = [ws EXCEPT ![c] = Cleaned(EndIter(ws[c]), 0, "ping", out = "raise_disc")]
            /\ active_ws_connections' = TableAfterCleanup(ws[c].user)
       ELSE IF ws[c].user \in DOMAIN active_ws_connections
       THEN /\ ws' = [ws EXCEPT ![c] = [EndIter(ws[c]) EXCEPT !.pc = "fanout"]]
            /\ active_ws_connections' =
                   [active_ws_connections EXCEPT ![ws[c].user].last_activity = now]
       ELSE /\ ws' = [ws EXCEPT ![c] = Cleaned(EndIter(ws[c]), 0, "ping", FALSE)]
            /\ active_ws_connections' = TableAfterCleanup(ws[c].user)
    /\ UNCHANGED <<now, tokenVars, redisUp, auxVars, regVars, rateVars, busVars>>

\* lines 280-297 after an unexpected error
CloseAfterError(c) ==
    /\ ws[c].pc = "closing"
    /\ ws' = [ws EXCEPT ![c] = Cleaned(@, CLOSE_INTERNAL, "error", TRUE)]
    /\ active_ws_connections' = TableAfterCleanup(ws[c].user)
    /\ UNCHANGED <<now, tokenVars, redisUp, auxVars, regVars, rateVars, busVars>>

\* the client closes its side of the socket
ClientDisconnect(c) ==
    /\ ws[c].pc \in ActivePcs
    /\ ~ws[c].gone
    /\ ws' = [ws EXCEPT ![c].gone = TRUE]
    /\ UNCHANGED <<now, tokenVars, redisUp, auxVars, regVars, rateVars, busVars, active_ws_connections>>

\* the Redis server becomes unreachable, or reachable again
RedisToggle ==
    /\ redisUp' = ~redisUp
    /\ UNCHANGED <<now, tokenVars, auxVars, regVars, rateVars, busVars, wsVars>>

----------------------------------------------------------------------------
(* EndpointRegistry: src/core/endpoint_tracking/registry.py *)

HEALTHY == "healthy"
DEGRADED == "degraded"
DOWN == "down"
UNKNOWN == "unknown"
STARTING == "starting"
MAINTENANCE == "maintenance"
PLANNED == "planned"
EndpointStatus == {HEALTHY, DEGRADED, DOWN, UNKNOWN, STARTING, MAINTENANCE, PLANNED}

NoArg == "<None>"           \* an optional argument left at None
\* Python's `x or default` and `if x:` for an optional string
Given(x) == x # NoArg /\ x # ""

\* a metadata dict maps each key to its value, 0 for a key it does not hold;
\* a metadata argument is the dict, or None (given = FALSE)
MetaKeys == {"k1", "k2"}
EmptyDict == [k \in MetaKeys |-> 0]
DictOf(keys) == [k \in MetaKeys |-> IF k \in keys THEN 1 ELSE 0]
NoMeta == [given |-> FALSE, d |-> EmptyDict]
MetaArg(keys) == [given |-> TRUE, d |-> DictOf(keys)]
\* `if metadata:` and `metadata or {}`: false for None and for an empty dict
MetaTruthy(m) == m.given /\ m.d # EmptyDict
\* dict.update
DictUpdate(old, new) == [k \in MetaKeys |-> IF new[k] # 0 THEN new[k] ELSE old[k]]

\* endpoint ids have the form f"{method}:{path}" (integration.py line 66)
EndpointId(method, path) == <<method, ":", path>>
RegIds == {EndpointId("GET", "/a"), EndpointId("GET", "/b")}
UnknownId == EndpointId("GET", "/c")      \* never registered
LongId == EndpointId("GET", "/a")         \* the endpoint whose status keeps flapping

\* the argument lists register_endpoint is called with
RegArgs == <<
    [name |-> "n1", description |-> NoArg, category |-> NoArg,
     status |-> STARTING, metadata |-> NoMeta],
    [name |-> "n2", description |-> "d1", category |-> "c1",
     status |-> PLANNED, metadata |-> MetaArg({"k1"})],
    [name |-> "n1", description |-> "", category |-> "",
     status |-> UNKNOWN, metadata |-> MetaArg({})],
    [name |-> "n2", description |-> NoArg, category |-> "c2",
     status |-> MAINTENANCE, metadata |-> MetaArg({"k2"})] >>
\* the calls made: (endpoint id, index into RegArgs)
RegCalls == ({LongId} \X {1, 2, 3}) \cup ({EndpointId("GET", "/b")} \X {4})
UpdStatuses == {HEALTHY, DOWN}
UpdMetas == {NoMeta, MetaArg({"k2"})}

\* EndpointInfo.__init__
NewEndpointInfo(a) ==
    [name |-> a.name,
     description |-> IF Given(a.description) THEN <<a.description>>
                     ELSE <<"Endpoint ", a.name>>,
     category |-> IF Given(a.category) THEN a.category ELSE "uncategorized",
     status |-> a.status,
     last_checked |-> now,
     metadata |-> IF MetaTruthy(a.metadata) THEN a.metadata.d ELSE EmptyDict,
     history |-> <<>>]

\* a register_endpoint that replaces the entry it finds
ReplaceEndpointInfo(e, a) == NewEndpointInfo(a)

\* register_endpoint lines 153-162: the entry is there already
MergeEndpointInfo(e, a) ==
    [e EXCEPT !.name = a.name,
              !.description = IF Given(a.description) THEN <<a.description>> ELSE e.description,
              !.category = IF Given(a.category) THEN a.category ELSE e.category,
              !.metadata = IF MetaTruthy(a.metadata) THEN DictUpdate(e.metadata, a.metadata.d)
                           ELSE e.metadata]

\* lines 73-74: the history keeps the last max_history_size entries
TrimHistory(h) == IF Len(h) > MAX_HISTORY_SIZE THEN LastN(h, MAX_HISTORY_SIZE) ELSE h

\* an update_status that records every call in the history
UpdateInfoAlways(e, status, m) ==
    [e EXCEPT !.history = TrimHistory(Append(e.history,
                              [previous_status |-> e.status, new_status |-> status,
                               timestamp |-> now, metadata |-> e.metadata])),
              !.status = status,
              !.last_checked = now,
              !.metadata = IF MetaTruthy(m) THEN DictUpdate(e.metadata, m.d) ELSE e.metadata]

\* EndpointInfo.update_status(status, metadata), lines 51-83
UpdateInfo(e, status, m) ==
    IF status = e.status
    THEN [e EXCEPT !.last_checked = now]
    ELSE [e EXCEPT !.history = TrimHistory(Append(e.history,
                                   [previous_status |-> e.status, new_status |-> status,
                                    timestamp |-> now, metadata |-> e.metadata])),
                   !.status = status,
                   !.last_checked = now,
                   !.metadata = IF MetaTruthy(m) THEN DictUpdate(e.metadata, m.d)
                                ELSE e.metadata]

\* the construction of the registry: EndpointRegistry.__new__, __init__ and
\* get_registry, called by several threads
RegThreads == {1, 2}
Constructors == {"EndpointRegistry", "get_registry"}

\* a thread that has made no call yet; in a register_endpoint call it keeps
\* the arguments, the outcome of the test of line 153 and the lock it holds
IdleTh == [pc |-> "out", via |-> "none", id |-> <<>>, arg |-> 0, existed |-> FALSE,
           held |-> 0]

\* no instance yet; created counts the objects made by __new__, inits the
\* assignments of a fresh endpoint map, locks the lock objects made for
\* self._lock (the last one is the lock in use), global is the module's
\* _registry
NoSingleton ==
    [instance |-> FALSE, created |-> 0, initialized |-> FALSE, inits |-> 0,
     locks |-> 0, global |-> FALSE,
     th |-> [t \in RegThreads |-> IdleTh]]

singletonFrame ==
    <<now, tokenVars, redisUp, unlocked, inbox, forwarded, rateVars, busVars, wsVars>>

\* the call returns the instance to thread t; get_registry has stored it in
\* _registry (line 290)
Holding(t) ==
    [singleton EXCEPT !.th[t].pc = "has",
                      !.global = @ \/ singleton.th[t].via = "get_registry"]

\* a thread calls EndpointRegistry() or get_registry(); lines 289-291:
\* get_registry returns _registry when it is set
CallConstructor(t, via) ==
    /\ singleton.th[t].pc = "out"
    /\ singleton' =
           IF via = "get_registry" /\ singleton.global
           THEN [singleton EXCEPT !.th[t].pc = "has", !.th[t].via = via]
           ELSE [singleton EXCEPT !.th[t].pc = "new", !.th[t].via = via]
    /\ UNCHANGED <<singletonFrame, regVars>>

\* __new__, lines 111-117, under the class lock
New(t) ==
    /\ singleton.th[t].pc = "new"
    /\ singleton' =
           IF singleton.instance
           THEN [singleton EXCEPT !.th[t].pc = "check"]
           ELSE [singleton EXCEPT !.th[t].pc = "check", !.instance = TRUE,
                                  !.created = @ + 1, !.initialized = FALSE]
    /\ UNCHANGED <<singletonFrame, regVars>>

\* __init__, lines 121-122: the test of _initialized
InitCheck(t) ==
    /\ singleton.th[t].pc = "check"
    /\ singleton' = IF singleton.initialized THEN Holding(t)
                    ELSE [singleton EXCEPT !.th[t].pc = "body"]
    /\ UNCHANGED <<singletonFrame, regVars>>

\* __init__, line 124: a fresh endpoint map; self._lock is still the lock
\* the instance had
InitEndpoints(t) ==
    /\ singleton.th[t].pc = "body"
    /\ endpoints' = <<>>
    /\ singleton' = [singleton EXCEPT !.th[t].pc = "body125", !.inits = @ + 1]
    /\ UNCHANGED <<singletonFrame, lastOp>>

\* __init__, line 125: a fresh lock
InitLock(t) ==
    /\ singleton.th[t].pc = "body125"
    /\ singleton' = [singleton EXCEPT !.th[t].pc = "flag", !.locks = @ + 1]
    /\ UNCHANGED <<singletonFrame, regVars>>

\* __init__, line 126: _initialized = True, and the return
InitFlag(t) ==
    /\ singleton.th[t].pc = "flag"
    /\ singleton' = [Holding(t) EXCEPT !.initialized = TRUE]
    /\ UNCHANGED <<singletonFrame, regVars>>

\* some thread has the registry in hand
HasRegistry == \E t \in RegThreads : singleton.th[t].pc = "has"

\* get_registry() run from its first line to its return with no other thread
\* in between (lines 288-291, 111-127): whether __init__ assigns a fresh map,
\* and the instance, its flag and _registry afterwards
InitRuns(s) == ~s.global /\ ~(s.instance /\ s.initialized)
AfterGetRegistry(s) ==
    IF s.global THEN s
    ELSE IF InitRuns(s)
    THEN [s EXCEPT !.instance = TRUE, !.created = IF s.instance THEN @ ELSE @ + 1,
                   !.initialized = TRUE, !.inits = @ + 1, !.locks = @ + 1,
                   !.global = TRUE]
    ELSE [s EXCEPT !.global = TRUE]
EndpointsAfterGetRegistry == IF InitRuns(singleton) THEN <<>> ELSE endpoints

\* a thread calls get_registry() while no other thread is constructing
GetRegistry(t) ==
    /\ \A u \in RegThreads : singleton.th[u].pc \in {"out", "has"}
    /\ singleton.th[t].pc = "out"
    /\ singleton' = [AfterGetRegistry(singleton) EXCEPT
                         !.th[t].pc = "has", !.th[t].via = "get_registry"]
    /\ endpoints' = EndpointsAfterGetRegistry
    /\ UNCHANGED <<singletonFrame, lastOp>>

NoOp == [op |-> "none", id |-> <<>>, arg |-> 0, status |-> "", existed |-> FALSE,
         same |-> FALSE, full |-> FALSE, res |-> "none", code |-> 0]

\* register_endpoint after the test of line 153 gave `existed`: lines
\* 154-162 read self._endpoints[endpoint_id] again, which is a KeyError when
\* the map was replaced meanwhile; lines 164-174 make a new entry
RegisterOutcome(id, i, existed) ==
    LET missing == existed /\ id \notin DOMAIN endpoints IN
    /\ endpoints' = IF missing THEN endpoints
                    ELSE SetAt(endpoints, id,
                               IF existed
                               THEN MergeEndpointInfo(endpoints[id], RegArgs[i])
                               ELSE NewEndpointInfo(RegArgs[i]))
    /\ lastOp' = [NoOp EXCEPT !.op = "register", !.id = id, !.arg = i,
                              !.existed = existed,
                              !.res = IF missing THEN "KeyError" ELSE "ok"]

\* EndpointRegistry.register_endpoint, lines 129-174, run from the first line
\* to the return with no other thread in between
RegisterEndpoint(id, i) ==
    /\ RegisterOutcome(id, i, id \in DOMAIN endpoints)
    /\ UNCHANGED <<now, tokenVars, redisUp, auxVars, rateVars, busVars, wsVars>>

\* lines 152-153 in a thread of several: the thread takes self._lock, which
\* is the lock object the instance has at that moment, and tests the map
RegisterTest(t, id, i) ==
    /\ singleton.th[t].pc = "has"
    /\ \A u \in RegThreads \ {t} :
           singleton.th[u].pc = "reg" => singleton.th[u].held # singleton.locks
    /\ singleton' = [singleton EXCEPT !.th[t] =
                         [@ EXCEPT !.pc = "reg", !.id = id, !.arg = i,
                                   !.existed = (id \in DOMAIN endpoints),
                                   !.held = singleton.locks]]
    /\ UNCHANGED <<singletonFrame, regVars>>

\* lines 154-174 in a thread of several, and the release of the lock
RegisterWrite(t) ==
    /\ singleton.th[t].pc = "reg"
    /\ RegisterOutcome(singleton.th[t].id, singleton.th[t].arg, singleton.th[t].existed)
    /\ singleton' = [singleton EXCEPT !.th[t] =
                         [IdleTh EXCEPT !.pc = "has", !.via = singleton.th[t].via]]
    /\ UNCHANGED singletonFrame

\* EndpointRegistry.update_status, lines 176-197
UpdateStatus(id, status, m) ==
    /\ IF id \notin DOMAIN endpoints
       THEN /\ endpoints' = endpoints
            /\ lastOp' = [NoOp EXCEPT !.op = "update", !.id = id, !.status = status,
                                      !.res = "KeyError"]
       ELSE /\ endpoints' = [endpoints EXCEPT ![id] = UpdateInfo(endpoints[id], status, m)]
            /\ lastOp' = [NoOp EXCEPT !.op = "update", !.id = id, !.status = status,
                                      !.existed = TRUE,
                                      !.same = (status = endpoints[id].status),
                                      !.full = (Len(endpoints[id].history) = MAX_HISTORY_SIZE),
                                      !.res = "ok"]
    /\ UNCHANGED <<now, tokenVars, redisUp, auxVars, rateVars, busVars, wsVars>>

\* Python binds a call's keyword arguments to the parameters of the function:
\* an unknown keyword or a missing required parameter is a TypeError
Binds(kwargs, params, required) == kwargs \subseteq params /\ required \subseteq kwargs

\* the parameters of EndpointRegistry.update_status (line 176) and the keywords
\* the REST route passes (routes/endpoint_status.py lines 133-138)
UpdateStatusParams == {"endpoint_id", "status", "metadata"}
UpdateStatusRequired == {"endpoint_id", "status"}
RouteUpdateKwargs == {"path", "method", "status", "comment"}

\* PUT /api/endpoints/{method}/{path}: update_endpoint_status, lines 115-146.
\* The call does not bind, the TypeError is not handled and the server
\* answers 500; a call that bound would return None and so give 404.
RouteUpdate(method, path, status) ==
    /\ endpoints' = EndpointsAfterGetRegistry
    /\ singleton' = AfterGetRegistry(singleton)
    /\ lastOp' = [NoOp EXCEPT !.op = "route_update", !.id = EndpointId(method, path),
                              !.status = status,
                              !.existed = (EndpointId(method, path) \in DOMAIN EndpointsAfterGetRegistry),
                              !.res = IF Binds(RouteUpdateKwargs, UpdateStatusParams,
                                               UpdateStatusRequired)
                                      THEN "NotFound" ELSE "TypeError",
                              !.code = IF Binds(RouteUpdateKwargs, UpdateStatusParams,
                                                UpdateStatusRequired)
                                       THEN HTTP_NOT_FOUND ELSE HTTP_SERVER_ERROR]
    /\ UNCHANGED <<now, tokenVars, redisUp, unlocked, inbox, forwarded, rateVars, busVars, wsVars>>

\* get_status_summary without the zero entries: only the statuses seen
StatusSummarySeen ==
    [s \in {endpoints[id].status : id \in DOMAIN endpoints} |->
        Cardinality({id \in DOMAIN endpoints : endpoints[id].status = s})]

\* get_status_summary, lines 263-274: every status starts at 0, then one is
\* added for each endpoint
RECURSIVE CountInto(_, _)
CountInto(summary, ids) ==
    IF ids = {} THEN summary
    ELSE LET id == CHOOSE x \in ids : TRUE IN
         CountInto([summary EXCEPT ![endpoints[id].status] = @ + 1], ids \ {id})

StatusSummary == CountInto([s \in EndpointStatus |-> 0], DOMAIN endpoints)

\* the status of LongId flaps between two values once its history has
\* MaxFreeHist entries; nothing else happens from then on
Flapping ==
    LongId \in DOMAIN endpoints /\ Len(endpoints[LongId].history) > MaxFreeHist
MayUpdate(id, status, m) ==
    IF id \notin DOMAIN endpoints THEN TRUE
    ELSE IF Len(endpoints[id].history) < MaxFreeHist THEN TRUE
    ELSE id = LongId /\ m = NoMeta /\ status \in {HEALTHY, DOWN}

----------------------------------------------------------------------------
(* The clock *)

\* Redis deletes a key whose TTL ran out
RateAt(t) == [k \in {x \in DOMAIN rate : t < rate[x].exp} |-> rate[k]]

\* made counts the calls of the current minute window only
MadeAt(t) ==
    [p \in RatePairs |->
        IF made[p].minute = t \div (RATE_WINDOW_SEC * TicksPerSec) THEN made[p]
        ELSE [minute |-> t \div (RATE_WINDOW_SEC * TicksPerSec), k |-> 0]]

Tick(d, max) ==
    /\ now + d <= max
    /\ now' = now + d
    /\ rate' = RateAt(now + d)
    /\ made' = MadeAt(now + d)
    /\ UNCHANGED <<tokenVars, redisUp, auxVars, regVars, rl, lastRate, calls, busVars, wsVars>>

----------------------------------------------------------------------------

Init ==
    /\ now = 0
    /\ minted = <<>>
    /\ cache = [j \in Jtis |-> 0]
    /\ db = <<>>
    /\ rv = IdleRv
    /\ lastRev = [tok |-> BadToken, res |-> "none", again |-> FALSE, expired |-> FALSE,
                  dbFailed |-> FALSE,
                  dbSame |-> TRUE, cacheSame |-> TRUE]
    /\ lastDec = [tok |-> BadToken, verify |-> TRUE, res |-> "none", payload |-> NoPayload,
                  unexpired |-> FALSE,
                  revokedBefore |-> FALSE]
    /\ revokedOk = {}
    /\ redisUp = TRUE
    /\ rate = <<>>
    /\ rl = [t \in RateTasks |-> IdleRl]
    /\ lastRate = [user |-> <<>>, role |-> <<>>, minute |-> 0, k |-> 0, limit |-> 0,
                   count |-> 0, ok |-> TRUE]
    /\ made = [p \in RatePairs |-> [minute |-> 0, k |-> 0]]
    /\ calls = 0
    /\ history_size = DEFAULT_HISTORY_SIZE
    /\ subscribers = <<>>
    /\ history = <<>>
    /\ pub = [p \in Pubs |-> IdlePub]
    /\ nextId = 0
    /\ published = [t \in BusTopics |-> <<>>]
    /\ ws = [c \in Conns |-> NewWs]
    /\ active_ws_connections = <<>>
    /\ endpoints = <<>>
    /\ lastOp = NoOp
    /\ lock = 0
    /\ unlocked = {}
    /\ singleton = NoSingleton
    /\ inbox = [c \in Conns |-> <<>>]
    /\ forwarded = [c \in Conns |-> <<>>]

NextToken ==
    \/ Tick(1, MaxTime)
    \/ \E sub \in Subjects, roles \in RoleLists, typ \in TokenTypes, delta \in Deltas :
           Mint(sub, roles, typ, delta)
    \/ \E tok \in Presentable, v \in BOOLEAN : Decode(tok, v)
    \/ \E tok \in Presentable : RevokeStart(tok)
    \/ \E dbOk \in BOOLEAN : RevokeDbWrite(dbOk)
    \/ RevokeCacheWrite

SpecToken == Init /\ [][NextToken]_vars

NextRate ==
    \/ Tick(RateTimeStep, MaxRateTime)
    \/ \E t \in SeqTasks, p \in RatePairs : RateSequential /\ RateGet(t, p[1], p[2])
    \/ \E t \in SeqTasks : RateSet(t)

SpecRate == Init /\ [][NextRate]_vars

\* the processes run rate_limiter concurrently for one (actor, role): the GET
\* of one may come between the GET and the SET of the other
ConcPair == <<(<<"9">>), GUEST>>
NextRateConc ==
    \/ Tick(RateTimeStep, MaxRateTime)
    \/ \E t \in RateTasks : RateGet(t, ConcPair[1], ConcPair[2])
    \/ \E t \in RateTasks : RateSet(t)

SpecRateConc == Init /\ [][NextRateConc]_vars

NextBus ==
    \/ \E hs \in HistorySizes : NewBus(hs)
    \/ Tick(1, MaxBusTime)
    \/ \E p \in SeqPubs, t \in BusTopics, ts \in {NoTs} \cup SuppliedTs : Publish(p, t, ts)
    \/ \E p \in SeqPubs, o \in CallbackOutcomes : CallbackDone(p, o)
    \/ \E t \in BusTopics, cb \in Callbacks : Subscribe(t, cb)
    \/ \E t \in BusTopics, cb \in Callbacks : Unsubscribe(t, cb)
    \/ \E t \in BusTopics \cup {NoTopic} : ClearHistory(t)

SpecBus == Init /\ [][NextBus]_vars

\* several tasks publish at once, and callbacks publish themselves; a task
\* that awaits a callback is resumed by the event loop once the callback is
\* over, and callbacks come to an end
ConcTopic == "a"
NextBusConc ==
    \/ \E p \in Pubs : Publish(p, ConcTopic, NoTs)
    \/ \E p \in Pubs, q \in Pubs, t \in BusTopics : NestedPublish(p, q, t)
    \/ \E p \in Pubs, o \in CallbackOutcomes : CallbackDone(p, o)
    \/ \E t \in BusTopics, cb \in Callbacks : Subscribe(t, cb)
    \/ \E t \in BusTopics, cb \in Callbacks : Unsubscribe(t, cb)

SpecBusConc ==
    /\ Init /\ [][NextBusConc]_vars
    /\ \A p \in Pubs : WF_vars(\E o \in CallbackOutcomes : CallbackDone(p, o))

NextWs ==
    \/ Tick(WsTimeStep, MaxWsTime)
    \/ \E sub \in Subjects, roles \in {<<"user">>}, typ \in TokenTypes, delta \in {0, 1} :
           Mint(sub, roles, typ, delta)
    \/ \E tok \in Presentable : RevokeStart(tok)
    \/ RevokeDbWrite(TRUE)
    \/ RevokeCacheWrite
    \/ \E c \in Conns, tok \in {NoTokenGiven} \cup Presentable, csrf \in CsrfInputs :
           Handshake(c, tok, csrf)
    \/ \E c \in Conns : Register(c)
    \/ \E c \in Conns, hasMsg \in BOOLEAN, out \in GoneSends : LoopFanout(c, hasMsg, out)
    \/ \E c \in Conns : LoopRecvTimeout(c)
    \/ \E c \in Conns, kind \in MsgKinds : LoopRecvMessage(c, kind)
    \/ \E c \in Conns, out \in GoneSends : LoopRecvGone(c, out)
    \/ \E c \in Conns, out \in GoneSends : LoopPing(c, out)
    \/ \E c \in Conns, out \in GoneSends : LoopPingSent(c, out)
    \/ \E c \in Conns : CloseAfterError(c)
    \/ \E c \in Conns : HandlerEnd(c)
    \/ \E c \in Conns : ClientDisconnect(c)
    \/ RedisToggle

SpecWs == Init /\ [][NextWs]_vars

\* one connected client that never sends anything, Redis up; every
\* statement of the loop comes to an end (get_message and the receive wait
\* time out, the sleep is over), so the handler always takes its next step
QuietConn == 1
NextWsQuiet ==
    \/ Tick(WsTimeStep, MaxWsTime)
    \/ \E sub \in Subjects, delta \in {1} : Mint(sub, <<"user">>, "access", delta)
    \/ \E tok \in Presentable : Handshake(QuietConn, tok, "none")
    \/ HandlerEnd(QuietConn)
    \/ QueuedRegister(QuietConn)
    \/ \E ch \in ws[QuietConn].subs : FanoutPublish(QuietConn, ch)
    \/ QueuedFanout(QuietConn)
    \/ LoopRecvTimeout(QuietConn)
    \/ LoopPing(QuietConn, "silent")
    \/ LoopPingSent(QuietConn, "silent")

SpecWsQuiet ==
    /\ Init /\ [][NextWsQuiet]_vars
    /\ WF_vars(QueuedFanout(QuietConn))
    /\ WF_vars(LoopRecvTimeout(QuietConn))
    /\ WF_vars(LoopPing(QuietConn, "silent"))
    /\ WF_vars(LoopPingSent(QuietConn, "silent"))

NextReg ==
    \/ ~Flapping /\ Tick(1, MaxRegTime)
    \/ GetRegistry(1)
    \/ \E c \in RegCalls : ~Flapping /\ HasRegistry /\ RegisterEndpoint(c[1], c[2])
    \/ \E id \in RegIds \cup {UnknownId}, st \in UpdStatuses, m \in UpdMetas :
           /\ HasRegistry
           /\ MayUpdate(id, st, m)
           /\ Flapping => id = LongId
           /\ UpdateStatus(id, st, m)
    \/ \E path \in {"/a", "/c"}, st \in {HEALTHY} : ~Flapping /\ RouteUpdate("GET", path, st)

SpecReg == Init /\ [][NextReg]_vars

\* threads construct the registry and register endpoints with it
NextRegInit ==
    \/ \E t \in RegThreads, via \in Constructors : CallConstructor(t, via)
    \/ \E t \in RegThreads : New(t)
    \/ \E t \in RegThreads : InitCheck(t)
    \/ \E t \in RegThreads : InitEndpoints(t)
    \/ \E t \in RegThreads : InitLock(t)
    \/ \E t \in RegThreads : InitFlag(t)
    \/ \E t \in RegThreads, c \in RegCalls : RegisterTest(t, c[1], c[2])
    \/ \E t \in RegThreads : RegisterWrite(t)

SpecRegInit == Init /\ [][NextRegInit]_vars

----------------------------------------------------------------------------
(* Claims about the token service (checked under SpecToken) *)

\* C1: after revoke(token) has returned successfully, every decode(token) made
\* while the token is unexpired fails with TokenRevoked.
C1_RevokedUntilExpiry ==
    (lastDec.res # "none" /\ lastDec.revokedBefore /\ lastDec.unexpired)
        => lastDec.res = "revoked"

\* C5 as stated: a second revoke(token) of an already revoked token returns
\* normally and leaves the cache entry and the durable log as they were.
C5_RevokeIdempotent ==
    lastRev.again
        => (lastRev.res = "ok" /\ lastRev.dbSame /\ lastRev.cacheSame)

\* C5 as amended: a second revoke(token) of an already revoked token raises
\* (TokenRevoked while the cache entry lives, the unique-jti violation of the
\* durable log after that) and leaves the cache entry and the durable log
\* exactly as the first call left them.
C5_SecondRevokeRaises ==
    lastRev.again
        => (lastRev.res \in {"revoked", "db_error"}
            /\ lastRev.dbSame /\ lastRev.cacheSame)

C5_Witness ==
    lastRev.again /\ lastRev.res = "db_error" /\ ~CacheExists(lastRev.tok)
        /\ JtiInDb(lastRev.tok)

\* C6: when the durable-log write fails, revoke still returns normally and
\* the token is revoked in the cache.
C6_DbFailureStillRevokes ==
    (lastRev.dbFailed /\ ~lastRev.again)
        => (lastRev.res = "ok" /\ cache[lastRev.tok] # 0)

\* C7: revoke(token) of a correctly signed token whose expires_at has passed
\* completes without error.
C7_RevokeExpiredSucceeds ==
    (lastRev.expired /\ ~lastRev.again /\ ~lastRev.dbFailed
        /\ lastRev.res \notin {"none", "value_error"})
        => lastRev.res = "ok"

----------------------------------------------------------------------------
(* Claims about the rate limiter (checked under SpecRate) *)

\* C3: with calls made one after another, the k-th call of an (actor, role)
\* pair in a minute window returns (limit, k) for k <= N and raises 429 for
\* k > N, N the role's limit; other pairs and windows do not affect the count.
C3_KthCallCounted ==
    lastRate.k > 0 =>
        LET N == RateLimitOf(lastRate.role) IN
        /\ lastRate.limit = N
        /\ lastRate.k <= N => (lastRate.ok /\ lastRate.count = lastRate.k)
        /\ lastRate.k > N => ~lastRate.ok

\* what holds of the code: the count returned is the number of calls made in
\* the window under the same key, whichever pairs made them
CallsUnderKey(key, minute) ==
    LET S == {p \in RatePairs : made[p].minute = minute /\ RateKey(p[1], p[2], minute) = key}
        Sum[T \in SUBSET S] ==
            IF T = {} THEN 0
            ELSE LET p == CHOOSE q \in T : TRUE IN made[p].k + Sum[T \ {p}]
    IN Sum[S]

C3_CountIsPerKey ==
    (lastRate.k > 0 /\ RateSequential /\ lastRate.minute = Minute) =>
        lastRate.count <= CallsUnderKey(RateKey(lastRate.user, lastRate.role, lastRate.minute),
                                        lastRate.minute)

----------------------------------------------------------------------------
(* Claims about the event bus (checked under SpecBus) *)

\* the last n elements of a list, by position
LastMessages(lst, n) == [i \in 1..n |-> lst[Len(lst) - n + i]]

\* C8: for a bus with capacity c >= 1, poll(topic) returns exactly the last
\* min(n, c) messages published to the topic since its last clear, in publish
\* order (n the number of those publishes).
C8_PollReturnsLastC ==
    history_size >= 1 =>
        \A t \in BusTopics :
            Poll(t, NoSince) = LastMessages(published[t], Min(Len(published[t]), history_size))

\* c + 1 publishes to one topic: c messages are returned, the first one is missing
C8_Witness ==
    \E t \in BusTopics :
        /\ history_size >= 1
        /\ Len(published[t]) = history_size + 1
        /\ Len(Poll(t, NoSince)) = history_size
        /\ \A i \in 1..Len(Poll(t, NoSince)) : Poll(t, NoSince)[i] # published[t][1]

\* the positions of the retained history whose timestamp is newer than T
NewerAt(t, T) == {i \in 1..Len(history[t]) : history[t][i].timestamp > T}

\* C9: poll(topic, T) returns exactly the retained messages with timestamp > T,
\* in publish order; poll(topic) returns the whole retained history; poll of a
\* never-published topic returns the empty list.
C9_PollSince ==
    \A t \in BusTopics :
        IF t \notin DOMAIN history
        THEN Poll(t, NoSince) = <<>> /\ \A T \in PollSince : Poll(t, T) = <<>>
        ELSE /\ Poll(t, NoSince) = history[t]
             /\ \A T \in PollSince :
                  LET r == Poll(t, T) IN
                  /\ Len(r) = Cardinality(NewerAt(t, T))
                  /\ \A i \in 1..Len(r) : r[i].timestamp > T
                  /\ \A i, j \in 1..Len(r) : i < j => r[i].id < r[j].id
                  /\ \A i \in NewerAt(t, T) : InSeq(r, history[t][i])

\* a message whose timestamp equals T is retained and left out, a newer one
\* published before it (a caller-supplied older timestamp) is returned
C9_Witness ==
    \E t \in DOMAIN history, T \in PollSince :
        /\ Len(history[t]) >= 2
        /\ history[t][1].timestamp > T
        /\ history[t][2].timestamp = T
        /\ Poll(t, T) = <<history[t][1]>>

\* C10: when a subscriber callback raises during publish, the error is caught:
\* publish goes through every position of the subscriber list (as long as no
\* one changes the list meanwhile), returns normally, and the event is in the
\* topic's history (as long as no one publishes to or clears the topic meanwhile).
C10_RaisingCallbackIsolated ==
    [][\A p \in Pubs :
          (pub[p].pc = "in_cb" /\ pub'[p].pc = "idle" /\ pub'[p].raised) =>
              /\ pub'[p].res = "returned"
              /\ ~pub[p].dirty => pub[p].idx = Len(subscribers[pub[p].topic])
              /\ ~pub[p].hdirty => InSeq(history[pub[p].topic], pub[p].ev)]_vars

\* C10 as amended: when a subscriber callback raises an Exception, the error
\* is caught: the call goes on with the next position of the subscriber list
\* or, at the last position, returns normally with the event in the topic's
\* history; a call that returns has gone through every position.  When a
\* callback raises a BaseException that is no Exception (a cancellation),
\* publish raises it and delivery ends there; the event is in the history.
C10_ExceptionIsolated ==
    [][\A p \in Pubs :
          /\ CallbackDone(p, "raise") =>
                 /\ pub'[p].pc = "in_cb" =>
                        /\ pub'[p].idx = pub[p].idx + 1
                        /\ pub'[p].raised
                 /\ pub'[p].pc = "idle" =>
                        /\ pub'[p].res = "returned"
                        /\ ~pub[p].hdirty => InSeq(history[pub[p].topic], pub[p].ev)
          /\ (pub[p].pc = "in_cb" /\ pub'[p].pc = "idle"
                /\ pub'[p].res = "returned" /\ ~pub[p].dirty) =>
                 pub[p].idx = Len(subscribers[pub[p].topic])
          /\ CallbackDone(p, "raise_base") =>
                 /\ pub'[p].pc = "idle" /\ pub'[p].res = "raised"
                 /\ ~pub[p].hdirty => InSeq(history[pub[p].topic], pub[p].ev)]_vars

\* the first callback has raised and the second one is being called
C10_Witness ==
    \E p \in Pubs :
        /\ pub[p].pc = "in_cb" /\ pub[p].raised /\ pub[p].idx = 2
        /\ ~pub[p].dirty /\ Len(subscribers[pub[p].topic]) = 2


----------------------------------------------------------------------------
(* The WebSocket handshake and the end of a connection *)

\* the token a connection presented can never pass validation: none at all,
\* a malformed one, one not of type access, or one whose user does not exist
NeverValid(tok) ==
    IF tok = NoTokenGiven \/ tok = BadToken THEN TRUE
    ELSE minted[tok].type # "access" \/ minted[tok].sub \notin UsersInDb

Registered(c) == \E u \in DOMAIN active_ws_connections : active_ws_connections[u].conn = c

\* C2: a handshake that presents no token, a token whose decode fails
\* (malformed, expired, revoked), a token not of type access or of an unknown
\* user is closed with 1008, one whose csrf_token does not match the cookie
\* with 4401; such a connection is never accepted, never entered in the
\* connection table and never subscribed to a channel.
C2_RejectedNeverAccepted ==
    \A c \in Conns :
        ws[c].pc # "new" =>
            /\ NeverValid(ws[c].tok) => ws[c].reject \notin {"none", "csrf"}
            /\ ws[c].csrfBad => ws[c].reject # "none"
            /\ ws[c].reject # "none" =>
                   /\ ws[c].pc \in {"ending", "closed"}
                   /\ ~ws[c].accepted
                   /\ ~Registered(c)
                   /\ ws[c].subs = {} /\ ~ws[c].pubsubOpen
                   /\ ws[c].closeCode =
                          IF ws[c].reject = "csrf" THEN CLOSE_CSRF ELSE CLOSE_POLICY
            /\ ws[c].accepted => ws[c].reject = "none"

\* a revoked token was refused by one handshake and a CSRF mismatch by another
C2_Witness ==
    \E c, d \in Conns :
        /\ ws[c].reject = "revoked" /\ ws[c].closeCode = CLOSE_POLICY
        /\ ws[d].reject = "csrf" /\ ws[d].closeCode = CLOSE_CSRF

\* C4: a connection that reached the main loop and has ended has no channel
\* subscribed, its pub/sub handle closed, no entry in the connection table
\* and its database session closed, whatever ended it.
C4_ActiveEndsClean ==
    \A c \in Conns :
        (ws[c].pc = "closed" /\ ws[c].wasActive) =>
            /\ ws[c].subs = {}
            /\ ~ws[c].pubsubOpen
            /\ ~Registered(c)
            /\ ~ws[c].dbOpen

----------------------------------------------------------------------------
(* The endpoint registry *)

\* what the history of an endpoint is after one more transition was recorded
Recorded(h, h2, prev, new) ==
    /\ Len(h2) = Min(Len(h) + 1, MAX_HISTORY_SIZE)
    /\ h2[Len(h2)].previous_status = prev
    /\ h2[Len(h2)].new_status = new
    /\ \A i \in 1..(Len(h2) - 1) : h2[i] = h[i + Len(h) + 1 - Len(h2)]

\* C11: update_status(id, s) with s the current status changes nothing but
\* last_checked; with another s it appends one entry {previous_status = old
\* status, new_status = s}, dropping the oldest entry of a history that held
\* 100, sets the status to s and refreshes last_checked.
C11_UpdateStatusFrame ==
    [][(lastOp'.op = "update" /\ lastOp'.res = "ok" /\ now' = now) =>
          LET e == endpoints[lastOp'.id]
              e2 == endpoints'[lastOp'.id]
              st == lastOp'.status
          IN IF st = e.status
             THEN /\ e2.history = e.history
                  /\ e2.status = e.status
                  /\ e2.metadata = e.metadata
                  /\ e2.last_checked = now
             ELSE /\ Recorded(e.history, e2.history, e.status, st)
                  /\ e2.status = st
                  /\ e2.last_checked = now]_vars

\* a transition was recorded in a history that already held 100 entries
C11_Witness ==
    /\ lastOp.op = "update" /\ lastOp.res = "ok"
    /\ ~lastOp.same /\ lastOp.full
    /\ Len(endpoints[lastOp.id].history) = MAX_HISTORY_SIZE
    /\ endpoints[lastOp.id].status = lastOp.status

\* C12: update_status on an id that was never registered fails with NotFound,
\* which the REST update route answers as HTTP 404, and creates no endpoint.
C12_UnknownIdNotFound ==
    (lastOp.op \in {"update", "route_update"} /\ ~lastOp.existed) =>
        /\ lastOp.id \notin DOMAIN endpoints
        /\ lastOp.op = "update" => lastOp.res = "KeyError"
        /\ lastOp.op = "route_update" => lastOp.code = HTTP_NOT_FOUND

\* C13: register on an id that is registered already does not raise and adds
\* no entry; status, last_checked and history stay; the name is overwritten,
\* description and category only when given, and the given metadata keys are
\* merged into the metadata, the other keys staying.
C13_RegisterMerges ==
    [][(lastOp'.op = "register" /\ lastOp'.existed /\ now' = now) =>
          LET id == lastOp'.id
              a == RegArgs[lastOp'.arg]
              e == endpoints[id]
              e2 == endpoints'[id]
          IN /\ lastOp'.res = "ok"
             /\ DOMAIN endpoints' = DOMAIN endpoints
             /\ \A x \in DOMAIN endpoints \ {id} : endpoints'[x] = endpoints[x]
             /\ e2.status = e.status
             /\ e2.last_checked = e.last_checked
             /\ e2.history = e.history
             /\ e2.name = a.name
             /\ e2.description =
                    IF Given(a.description) THEN <<a.description>> ELSE e.description
             /\ e2.category = IF Given(a.category) THEN a.category ELSE e.category
             /\ \A k \in MetaKeys :
                    e2.metadata[k] = IF a.metadata.given /\ a.metadata.d[k] # 0
                                     THEN a.metadata.d[k] ELSE e.metadata[k]]_vars

\* an endpoint with a recorded transition and the key k2 was registered again
\* with a description, a category and the key k1
C13_Witness ==
    /\ lastOp.op = "register" /\ lastOp.existed /\ lastOp.arg = 2
    /\ Len(endpoints[lastOp.id].history) = 1
    /\ endpoints[lastOp.id].metadata = DictOf({"k1", "k2"})
    /\ endpoints[lastOp.id].status # RegArgs[2].status

RECURSIVE SumOver(_, _)
SumOver(f, keys) ==
    IF keys = {} THEN 0
    ELSE LET k == CHOOSE x \in keys : TRUE IN f[k] + SumOver(f, keys \ {k})

\* C19: the summary has a count for each of the seven statuses, each count is
\* the number of registered endpoints in that status, and the counts add up
\* to the number of registered endpoints.
C19_SummaryCountsAll ==
    /\ DOMAIN StatusSummary = EndpointStatus
    /\ Cardinality(EndpointStatus) = 7
    /\ \A st \in EndpointStatus :
           StatusSummary[st] =
               Cardinality({id \in DOMAIN endpoints : endpoints[id].status = st})
    /\ SumOver(StatusSummary, EndpointStatus) = Cardinality(DOMAIN endpoints)

\* two endpoints in different statuses, one of them after an update
C19_Witness ==
    /\ DOMAIN endpoints = RegIds
    /\ lastOp.op = "update" /\ ~lastOp.same
    /\ StatusSummary[HEALTHY] = 1
    /\ StatusSummary[MAINTENANCE] = 1
    /\ StatusSummary[DOWN] = 0

----------------------------------------------------------------------------
(* Client messages and a second connection of one user *)

HasEntry(c) == ws[c].user \in DOMAIN active_ws_connections

\* C14: an error raised while one client message is handled (the payload is
\* not JSON or no JSON object, or the handling itself raises) is answered
\* with an error frame inside the receive loop; the handler stays in its
\* loop, the connection table and the subscriptions are as before, and the
\* iteration ends by starting the next one.
C14_MessageErrorKeepsActive ==
    [][\A c \in Conns :
          /\ (ws[c].pc = "recv" /\ ws'[c].msg # "none"
                /\ MessageRaises(ws'[c].msg, HasEntry(c))) =>
                 /\ ws'[c].reply = "error_frame"
                 /\ ws'[c].pc \in LoopPcs
                 /\ ws'[c].subs = ws[c].subs /\ ws'[c].pubsubOpen
                 /\ ws'[c].closeCode = 0
                 /\ active_ws_connections' = active_ws_connections
          /\ (ws[c].pc = "ping" /\ ws[c].reply = "error_frame" /\ ws'[c].pc # "ping"
                /\ HasEntry(c) /\ ~ws[c].gone) =>
                 /\ ws'[c].pc \in {"fanout", "pinged"}
                 /\ ws'[c].subs = ws[c].subs /\ ws'[c].pubsubOpen
                 /\ ws[c].user \in DOMAIN active_ws_connections'
          /\ (ws[c].pc = "pinged" /\ ws[c].reply = "error_frame" /\ ws'[c].pc # "pinged"
                /\ HasEntry(c) /\ ~ws[c].gone) =>
                 /\ ws'[c].pc = "fanout"
                 /\ ws'[c].subs = ws[c].subs /\ ws'[c].pubsubOpen
                 /\ ws[c].user \in DOMAIN active_ws_connections']_vars

\* a payload that is not JSON was answered with an error frame by a handler
\* that is still in its loop, registered and subscribed
C14_Witness ==
    \E c \in Conns :
        /\ ws[c].msg = "non_json" /\ ws[c].reply = "error_frame"
        /\ ws[c].pc = "ping"
        /\ HasEntry(c) /\ active_ws_connections[ws[c].user].conn = c
        /\ ws[c].subs = ChannelsOf(ws[c].user, ws[c].roles)

\* C15: each client message gets the reply of its type: ping a pong, command
\* a command_result, join_channel anything but 'Unknown message type', another
\* type the 'Unknown message type' error, and text that is not JSON the echo
\* 'Received: <payload>'.
C15_ReplyByType ==
    \A c \in Conns :
        (ws[c].msg # "none" /\ HasEntry(c)) =>
            /\ ws[c].msg = "ping" => ws[c].reply = "pong"
            /\ ws[c].msg = "command" => ws[c].reply = "command_result"
            /\ ws[c].msg = "join_channel" => ws[c].reply # "unknown_type"
            /\ ws[c].msg = "other" => ws[c].reply = "unknown_type"
            /\ ws[c].msg = "non_json" => ws[c].reply = "echo"

\* C16: when a connection of a user is registered while another connection of
\* that user is in its main loop, the table entry of the user holds the new
\* connection and the other handler is left as it was: in its loop, with its
\* own subscriptions, its socket not closed.
C16_SecondConnectionReplacesEntry ==
    [][\A d \in Conns :
          (ws[d].pc = "accepted" /\ ws'[d].pc = "fanout") =>
              /\ active_ws_connections'[ws[d].user].conn = d
              /\ \A c \in Conns \ {d} : ws'[c] = ws[c]]_vars

\* both connections of one user are in their loops and the entry is the
\* second one's
C16_Witness ==
    /\ ws[1].pc \in LoopPcs /\ ws[2].pc \in LoopPcs
    /\ ws[1].user = ws[2].user
    /\ ws[1].subs # {} /\ ws[1].pubsubOpen /\ ws[1].closeCode = 0
    /\ HasEntry(2) /\ active_ws_connections[ws[2].user].conn = 2
    /\ active_ws_connections[ws[2].user].last_activity > 0

----------------------------------------------------------------------------
(* Minting and decoding *)

\* C17: decoding a minted token with expiry verification succeeds at any time
\* before its exp while its jti is not revoked, and returns the sub and roles
\* given to mint together with exp, iat, jti and type; at or after its exp the
\* decode fails with the expiry error.
C17_DecodeOfMint ==
    (lastDec.res # "none" /\ lastDec.verify /\ lastDec.tok # BadToken) =>
        /\ (lastDec.unexpired /\ ~lastDec.revokedBefore) =>
               /\ lastDec.res = "ok"
               /\ lastDec.payload.sub = minted[lastDec.tok].args.sub
               /\ lastDec.payload.roles = minted[lastDec.tok].args.roles
               /\ lastDec.payload.type = minted[lastDec.tok].args.type
               /\ lastDec.payload.jti = lastDec.tok
               /\ lastDec.payload.exp = minted[lastDec.tok].exp
               /\ lastDec.payload.iat = minted[lastDec.tok].iat
        /\ ~lastDec.unexpired => lastDec.res = "expired"

\* a refresh token of alice with a role was decoded before its exp, after time passed
C17_Witness ==
    /\ lastDec.res = "ok" /\ lastDec.verify /\ lastDec.unexpired
    /\ lastDec.payload.sub = "alice"
    /\ lastDec.payload.roles = <<"user">>
    /\ lastDec.payload.type = "refresh"
    /\ lastDec.payload.exp = 2
    /\ now = 3

\* C18: every minted token has a jti no other minted token has, and an exp
\* strictly greater than its iat, whatever the token type and the
\* expires_delta given (zero and negative ones included).
C18_UniqueJtiExpAfterIat ==
    \A i \in 1..Len(minted) :
        /\ minted[i].exp > minted[i].iat
        /\ \A j \in 1..Len(minted) : j # i => minted[j].jti # minted[i].jti

----------------------------------------------------------------------------
(* Concurrent calls of the rate limiter *)

\* C20: with rate_limiter calls of several processes for one (actor, role)
\* in one minute window interleaved in any way, no increment is lost: once
\* the calls have returned, the stored count is the number of calls made in
\* the window, and a call is accepted only if it is among the first `limit`.
C20_IncrementAtomic ==
    (RateSequential /\ made[ConcPair].k > 0 /\ made[ConcPair].minute = Minute) =>
        /\ RedisGet(RateKey(ConcPair[1], ConcPair[2], Minute)) = made[ConcPair].k
        /\ (lastRate.k > 0 /\ lastRate.ok) => lastRate.k <= lastRate.limit

----------------------------------------------------------------------------
(* The order of the two writes of revoke_token *)

\* C21: whenever the durable write of a revoke_token call has started or is
\* done, the cache holds revoked_token:{jti} already: the cache entry is
\* written before the row of the revoked_tokens table.
C21_CacheBeforeDurable ==
    /\ rv.pc \in {"db", "cache"} => cache[minted[rv.tok].jti] # 0
    /\ \A i \in 1..Len(db) : cache[db[i].jti] # 0

----------------------------------------------------------------------------
(* The capacity of a topic's history *)

\* C30: for every history_size >= 0, 0 included, no topic's history is ever
\* longer than history_size.
C30_HistoryWithinCapacity ==
    \A t \in DOMAIN history : Len(history[t]) <= history_size

----------------------------------------------------------------------------
(* The entries of the connection table *)

\* C26: every entry of the connection table belongs to a handler that is
\* still running; a setup that fails after the entry was written ends with
\* the socket closed with 1011, the entry removed and the session closed.
C26_EntriesOfRunningHandlers ==
    \A c \in Conns :
        /\ (ws[c].endedBy = "setup" /\ ws[c].pc = "closed") =>
               ws[c].closeCode = CLOSE_INTERNAL /\ ~ws[c].dbOpen /\ ~Registered(c)
        /\ Registered(c) => ws[c].pc # "closed"

----------------------------------------------------------------------------
(* The end of one connection and the other connections *)

\* C25: the end of one connection neither removes nor terminates another:
\* when an older connection of a user ends while the table entry of that user
\* is the one of a newer connection that is in its loop, the step leaves that
\* entry in the table and the newer connection as it was.
C25_CloseLeavesOthers ==
    [][\A c \in Conns : \A d \in Conns \ {c} :
          (/\ ws[c].wasActive /\ ws[c].pc # "closed" /\ ws'[c].pc = "closed"
           /\ ws[d].pc \in ActivePcs /\ ws[d].user = ws[c].user
           /\ HasEntry(d) /\ active_ws_connections[ws[d].user].conn = d)
          => /\ ws[d].user \in DOMAIN active_ws_connections'
             /\ active_ws_connections'[ws[d].user].conn = d
             /\ ws'[d] = ws[d]]_vars

----------------------------------------------------------------------------
(* Delivery while the subscriber list changes *)

Count(lst, x) == Cardinality({i \in 1..Len(lst) : lst[i] = x})

\* C23: a publish call invokes every callback subscribed to the topic once
\* per registration, also when callbacks are subscribed or unsubscribed while
\* it delivers: when the call returns, every callback that is subscribed to
\* the topic at that moment has been called with the event, as often as it is
\* registered.
C23_NoSubscriberSkipped ==
    [][\A p \in Pubs :
          (pub[p].pc = "in_cb" /\ pub'[p].pc = "idle" /\ pub'[p].res = "returned") =>
              \A cb \in Callbacks :
                  Count(pub[p].called, cb) >= Count(subscribers[pub[p].topic], cb)]_vars

----------------------------------------------------------------------------
(* Concurrent and nested publish calls (checked under SpecBusConc) *)

\* C22: when several tasks publish to one topic at once, every subscriber is
\* called with the events in the order in which they were appended to the
\* history: while the subscriber list stays as it is, no registration is
\* called with an event after it was called with an event of the same topic
\* that was appended later.
C22_DeliveryInAppendOrder ==
    [][\A p \in Pubs : \A q \in Pubs \ {p} :
          ~(/\ pub[p].pc = "in_cb" /\ pub'[p].pc = "in_cb"
            /\ pub'[p].idx > pub[p].idx
            /\ pub[q].pc = "in_cb" /\ pub[q].topic = pub[p].topic
            /\ pub[q].ev.id > pub[p].ev.id
            /\ ~pub[p].dirty /\ ~pub[q].dirty
            /\ pub[q].idx >= pub'[p].idx)]_vars

\* the events held by the histories of all topics
HistoryTotal ==
    LET Sum[T \in SUBSET DOMAIN history] ==
            IF T = {} THEN 0
            ELSE LET t == CHOOSE x \in T : TRUE IN Len(history[t]) + Sum[T \ {t}]
    IN Sum[DOMAIN history]

\* C29: a callback that calls publish, subscribe or unsubscribe on the bus
\* that is delivering to it never waits for the bus lock: no call is ever
\* blocked on the lock, every publish call that started comes to its end, the
\* nested one and the outer one, and every event published is in the history
\* of its topic.
C29_NestedCallsComplete ==
    /\ [](\A q \in Pubs : pub[q].pc # "blocked")
    /\ [](HistoryTotal = nextId)
    /\ \A p \in Pubs : (pub[p].pc = "in_cb") ~> (pub[p].pc = "idle")

\* a callback of publish call 1 published itself; the nested call and the
\* outer call have both returned and both events are in the histories
C29_Witness ==
    /\ pub[1].pc = "idle" /\ pub[1].res = "returned" /\ pub[1].parent = 0
    /\ pub[2].pc = "idle" /\ pub[2].res = "returned" /\ pub[2].parent = 1
    /\ nextId = 2 /\ HistoryTotal = 2

----------------------------------------------------------------------------
(* Locks around the in-process maps *)

\* C27: every change of an in-process map (the subscriber lists and the
\* histories of the bus, the endpoint map of the registry, the connection
\* table of the gateway) is made by code that holds the lock of that
\* structure: no map is ever changed without it.
C27_MutationsUnderLock == unlocked = {}

----------------------------------------------------------------------------
(* The loop of a quiet connection (checked under SpecWsQuiet) *)

QuietActive == ws[QuietConn].pc \in ActivePcs
QuietEntry == active_ws_connections[ws[QuietConn].user]
Holds(q, k) == \E i \in 1..Len(q) : q[i].type = "message" /\ q[i].id = k

\* C28: with a connected client that sends nothing the handler stays in its
\* loop and goes through every statement of it again and again; every
\* message published on a subscribed channel is forwarded in the end, one
\* per iteration at most and in the order of publication; once the
\* connection was idle for more than 30 s a ping is sent and the activity
\* clock is set to the time of the ping.
C28_QuietClientServed ==
    /\ [][QuietActive => QuietActive']_vars
    /\ \A l \in LoopPcs : QuietActive ~> (ws[QuietConn].pc = l)
    /\ \A k \in 1..MaxFanout :
           Holds(inbox[QuietConn], k) ~> InSeq(forwarded[QuietConn], k)
    /\ [](\A i \in 1..Len(forwarded[QuietConn]) : forwarded[QuietConn][i] = i)
    /\ [][Len(forwarded'[QuietConn]) # Len(forwarded[QuietConn]) =>
             /\ ws[QuietConn].pc = "fanout" /\ ws'[QuietConn].pc = "recv"
             /\ forwarded'[QuietConn] =
                    Append(forwarded[QuietConn], Len(forwarded[QuietConn]) + 1)]_vars
    /\ (QuietActive /\ PingDue(ws[QuietConn].user))
           ~> (QuietActive /\ QuietEntry.last_activity = now)

\* the quiet connection is in its loop, both messages published for it were
\* forwarded in order and the ping that was due has reset the activity clock
C28_Witness ==
    /\ QuietActive
    /\ forwarded[QuietConn] = <<1, 2>>
    /\ inbox[QuietConn] = <<>>
    /\ now = WsTimeStep /\ QuietEntry.last_activity = now

----------------------------------------------------------------------------
(* The registry as a singleton (checked under SpecRegInit) *)

\* C24: whichever threads call EndpointRegistry() and get_registry(), and
\* however their steps interleave, one instance is made, its endpoint map is
\* initialised once, and an endpoint that was registered stays in the map.
C24_SingletonInitOnce ==
    /\ singleton.created <= 1
    /\ singleton.inits <= 1
    /\ (lastOp.op = "register" /\ lastOp.res = "ok") => lastOp.id \in DOMAIN endpoints

====
